---- MODULE Spec2Model ----
(***************************************************************************)
(* Write path of tracedb/unitdb: batches (batch.go) staged into the shared *)
(* memdb and committed to the durable bucket index, and the write-ahead    *)
(* log (wal/wal.go) with its crash recovery.                               *)
(***************************************************************************)
EXTENDS Bags, FiniteSets, Integers, Sequences, TLC

\* ------------------------------------------------------------------ bounds
NBatches == 3
NKeys == 2
NValues == 1
MaxLen == 2
MaxOps == 4
MaxSeq == 4
MaxKeysLen == 4
MaxLogs == 3
MaxLogSize == 3
MaxCrashes == 1
MaxIdxSeq == 2
MaxIdxBuckets == 2
MaxIdxUnder == 1
MaxDataOff == 4
MaxPutLogs == 2
MaxRecs == 2
MaxBodyLen == 1
MaxExtraNext == 2
MaxAppRecs == 2
MaxAppends == 2
MaxDwOffset == 7
NThreads == 3

\* ------------------------------------------------------- program constants
entriesPerBucket == 2
HashRange == 3
dbNBuckets == 1
memNBuckets == 1
loadFactorNum == 7
loadFactorDen == 10
MaxKeys == 3
uint64Mod == 1073741824
\* internalLen is a uint32; 2^30 stands for 2^32, which the integers of TLC do not hold
uint32Mod == 1073741824
dwStart == 4
blockSize == 2
headerSize == 2
logHeaderSize == 1
logStatusWritten == 0
logStatusApplied == 1

Batches == 1..NBatches
Keys == 1..NKeys
Values == 1..NValues
\* keys, values and seqs of the records applied to the durable index one by one
IdxKeys == 1..(MaxKeys + 1)
IdxValues == {1, 2}
IdxSeqs == 1..MaxIdxSeq
\* keys whose durable entries are followed through the data file, and its offsets
DataKeys == {1, 2}
DataOffs == 1..MaxDataOff
\* the threads that call WAL.put
PutThreads == {1, 2}

VARIABLES
    batch,          \* batch[b]: the fields of Batch b
    mem_seq,        \* memdb.seq
    activeBatches,  \* memdb.activeBatches: seq -> bag of fingerprints
    mem_buckets,    \* memdb bucket chains, mem_buckets[i+1] is the chain of bucket i
    mem_count,      \* memdb.count
    mem_ref,        \* memdb reference count
    db_buckets,     \* durable index: base buckets then overflow buckets
    db_count,       \* db.count
    filter,         \* db.filter, the hashes appended so far
    st,             \* history: lifecycle of each batch
    expected,       \* history: key -> value of the latest committed put, 0 when none or deleted
    badApplied,     \* history: a commit applied a record of a failed or aborted Write
    wal,            \* the WAL struct: seq, count, logs, and logFile.fb, logFile.size
    disk,           \* the log file on disk: size, header, log headers by offset
    wal_pc,         \* position of the WAL's user: open, written, crashed, recovered
    wal_crashes,    \* history: number of crashes so far
    idx_originalB,  \* originalB of the commit in progress, when records are applied one by one
    pc,             \* pc[t]: position of thread t in Write or commit
    writeLockC,     \* db.writeLockC: the thread whose token is in the channel, 0 when empty
    db_mu,          \* db.mu: the thread holding the mutex, 0 when free
    ret,            \* ret[t]: the exit path the Write of thread t takes
    pending,        \* pending[t]: the batch of thread t has pendingWrites
    data,           \* db.data and the entries that reference it: entry, blobs, free, freed
    wput,           \* threads in WAL.put: pc, the local l and the argument of each, and wal.mu
    reader,         \* a wal Reader and the logs it reads: logs, kind, r, err, asked, src, out
    app,            \* two batches at byte level: b, bnew (data, index, internalLen), appends
    dw,             \* a dataWriter and its lease: offset, leasing, lease, obtained, rolled, ret
    wclose,         \* threads in WAL.Close and SignalLogApplied: pc, ret, and wal.closed, wal.wg, wal.mu, the log file
    wal_ret         \* the result of the last SignalLogApplied that met I/O errors: "nil" or "err"

walVars == <<wal, disk, wal_pc, wal_crashes>>

idxVars == <<idx_originalB>>

lockVars == <<pc, writeLockC, db_mu, ret, pending>>

auxVars == <<data, wput, reader, wal_ret, app, dw, wclose>>
auxButData == <<wput, reader, wal_ret, app, dw, wclose>>
auxButWput == <<data, reader, wal_ret, app, dw, wclose>>
auxButReader == <<data, wput, wal_ret, app, dw, wclose>>
auxButWalRet == <<data, wput, reader, app, dw, wclose>>
auxButApp == <<data, wput, reader, wal_ret, dw, wclose>>
auxButDw == <<data, wput, reader, wal_ret, app, wclose>>
auxButWclose == <<data, wput, reader, wal_ret, app, dw>>

vars == <<batch, mem_seq, activeBatches, mem_buckets, mem_count, mem_ref,
          db_buckets, db_count, filter, st, expected, badApplied, wal, disk, wal_pc, wal_crashes,
          idx_originalB, pc, writeLockC, db_mu, ret, pending, auxVars>>

\* ------------------------------------------------------------- pure helpers
Min(S) == CHOOSE x \in S : \A y \in S : x <= y

\* 32-bit key hash, scaled down to HashRange values; 0 is never produced for
\* the keys of the model (firstKeyHash == 0 means "not set").
hash(key) == ((key - 1) % HashRange) + 1

\* len(key): key 0 stands for the empty key
keyLen(key) == IF key = 0 THEN 0 ELSE 1

\* the record appendRec adds to b.index (with the bytes it adds to b.data)
batchIndex(dFlag, key, value) ==
    [delFlag |-> dFlag, hash |-> hash(key), key |-> key,
     value |-> IF dFlag THEN 0 ELSE value]

\* uniq, first loop: right-to-left pass that records, for each hash not yet
\* seen, its position idx; the position in the result is newidx + 1.
\* total number of records in the batches 1..b
RECURSIVE SumLen(_, _)
SumLen(f, b) == IF b = 0 THEN 0 ELSE Len(f[b].index) + SumLen(f, b - 1)

RECURSIVE uniqScan(_, _, _)
uniqScan(index, idx, set) ==
    IF idx = 0 THEN set
    ELSE IF \E j \in 1..Len(set) : set[j].hash = index[idx].hash
         THEN uniqScan(index, idx - 1, set)
         ELSE uniqScan(index, idx - 1, Append(set, [hash |-> index[idx].hash, idx |-> idx]))

\* uniq, second loop: pendingWrites[len(unique_set)-newidx-1] = index[idx]
uniqPlaceReversed(index, set) ==
    [p \in 1..Len(set) |-> index[set[p].idx]]

uniqPlace(index, set) ==
    [p \in 1..Len(set) |-> index[set[Len(set) - p + 1].idx]]

uniq(index) == uniqPlace(index, uniqScan(index, Len(index), <<>>))

\* the hashes uniq appends to b.keys, one per entry of unique_set
uniqKeys(index) == SetToBag({index[i].hash : i \in 1..Len(index)})

\* ------------------------------------------------------------------- memdb
\* memdb.bucketIndex
memBucketIndex(h, nBuckets) == h % nBuckets

\* memdb.put: walk the chain of the bucket of h, update the entry of the same
\* (hash, user key), otherwise take the first empty slot.  A chain is kept as
\* the sequence of its used slots: slot j lies in bucket (j-1) \div
\* entriesPerBucket of the chain, and the memdb never clears a slot.
memPut(m, e) ==
    LET i == memBucketIndex(e.hash, Len(m.buckets)) + 1
        chain == m.buckets[i]
        hit == {j \in 1..Len(chain) : chain[j].hash = e.hash /\ chain[j].key = e.key}
    IN IF hit # {}
       THEN [m EXCEPT !.buckets[i][Min(hit)] = e]
       ELSE [m EXCEPT !.buckets[i] = Append(chain, e), !.count = m.count + 1]

\* memdb.split: double the bucket count and redistribute by hash
memSplit(m) ==
    LET n == Len(m.buckets)
    IN [m EXCEPT !.buckets =
            [i \in 1..(2 * n) |->
                SelectSeq(m.buckets[((i - 1) % n) + 1],
                          LAMBDA e : memBucketIndex(e.hash, 2 * n) = i - 1)]]

\* float64(count)/float64(nBuckets*entriesPerBucket) > loadFactor
overLoadFactor(m) ==
    m.count * loadFactorDen > loadFactorNum * Len(m.buckets) * entriesPerBucket

\* ------------------------------------------------------------------- batch
hasWriteConflict(h) ==
    \E s \in DOMAIN activeBatches : BagIn(h, activeBatches[s])

\* Batch.mput on the write state ws = [seq, firstKeyHash, mem, err]; owner
\* and good are history tags of the staged record: the batch that staged it
\* and whether its Write returned nil.
mput(ws, r, b, good) ==
    IF keyLen(r.key) = 0 THEN [ws EXCEPT !.err = "errKeyEmpty"]
    ELSE IF hasWriteConflict(r.hash) THEN [ws EXCEPT !.err = "errWriteConflict"]
    ELSE LET e == [hash |-> r.hash, key |-> r.key, seq |-> ws.seq + 1,
                   dFlag |-> r.delFlag, value |-> r.value, owner |-> b, good |-> good]
             m1 == memPut(ws.mem, e)
             m2 == IF overLoadFactor(m1) THEN memSplit(m1) ELSE m1
         IN [seq |-> ws.seq + 1,
             firstKeyHash |-> IF ws.firstKeyHash = 0 THEN r.hash ELSE ws.firstKeyHash,
             mem |-> m2,
             err |-> "nil"]

\* Batch.writeInternal: mput for each pending write, stop at the first error
RECURSIVE writeInternal(_, _, _, _, _)
writeInternal(ws, pw, i, b, good) ==
    IF i > Len(pw) \/ ws.err # "nil" THEN ws
    ELSE writeInternal(mput(ws, pw[i], b, good), pw, i + 1, b, good)

\* ----------------------------------------------------------- durable index
emptyEntry == [hash |-> 0, key |-> 0, value |-> 0, kvOffset |-> 0]

emptyBucket == [entries |-> [j \in 1..entriesPerBucket |-> emptyEntry], next |-> 0]

\* db.bucketIndex
dbBucketIndex(h) == h % dbNBuckets

\* The slot at which the loop over the entries of one bucket leaves the
\* bucket: the first slot that is empty (kvOffset == 0) or holds the key
\* (same hash, same key size, same key bytes); 0 when the loop runs out.
firstSlot(bh, h, key) ==
    LET S == {i \in 1..entriesPerBucket :
                \/ bh.entries[i].kvOffset = 0
                \/ (bh.entries[i].hash = h /\ bh.entries[i].key = key)}
    IN IF S = {} THEN 0 ELSE Min(S)

\* db.forEachBucket with the callback of the delete path: [id, idx] of the
\* entry holding the key, idx = 0 for delentryIdx == -1.
RECURSIVE delWalk(_, _, _, _)
delWalk(bk, id, h, key) ==
    LET bh == bk[id]
        i == firstSlot(bh, h, key)
    IN IF i # 0 /\ bh.entries[i].kvOffset # 0 THEN [id |-> id, idx |-> i]
       ELSE IF bh.next = 0 THEN [id |-> id, idx |-> 0]
       ELSE delWalk(bk, bh.next, h, key)

\* bucketHandle.del: clear the entry
del(bh, idx) == [bh EXCEPT !.entries[idx] = emptyEntry]

\* lookup of a key in the durable index: its value, 0 for a miss
Lookup(bk, key) ==
    LET w == delWalk(bk, dbBucketIndex(hash(key)) + 1, hash(key), key)
    IN IF w.idx = 0 THEN 0 ELSE bk[w.id].entries[w.idx].value

noBucket == [id |-> 0, bh |-> emptyBucket]

\* db.forEachBucket with the callback of the insert/update path: the bucket
\* handle bh (a copy of bucket id), entryIdx, and originalB when an overflow
\* bucket was created (createOverflowBucket appends an empty bucket to the
\* index file; the link is only in the copy of the predecessor).
RECURSIVE putWalk(_, _, _, _)
putWalk(bk, id, h, key) ==
    LET bh == bk[id]
        i == firstSlot(bh, h, key)
    IN IF i # 0
       THEN [bk |-> bk, id |-> id, bh |-> bh, entryIdx |-> i, originalB |-> noBucket]
       ELSE IF bh.next = 0
            THEN [bk |-> Append(bk, emptyBucket), id |-> Len(bk) + 1, bh |-> emptyBucket,
                  entryIdx |-> 1,
                  originalB |-> [id |-> id, bh |-> [bh EXCEPT !.next = Len(bk) + 1]]]
            ELSE putWalk(bk, bh.next, h, key)

\* commit, delete path for the staged record e, on the commit state cs =
\* [bk, count, filter, originalB, err, bad]; found = FALSE is the
\* "return false, nil" of the filter test and of delentryIdx == -1.
applyDel(cs, e) ==
    LET h == hash(e.key)
        w == delWalk(cs.bk, dbBucketIndex(h) + 1, h, e.key)
    IN IF h \notin cs.filter \/ w.idx = 0
       THEN [found |-> FALSE, cs |-> cs]
       ELSE [found |-> TRUE,
             cs |-> [cs EXCEPT !.bk[w.id] = del(cs.bk[w.id], w.idx),
                               !.count = @ - 1,
                               !.bad = @ \/ ~e.good]]

\* a variant of the test below that refuses updates as well
errFullAlways(isNew, count) == count = MaxKeys
\* the errFull test: a new item is inserted while db.count == MaxKeys
errFull(isNew, count) == isNew /\ count = MaxKeys

\* commit, insert/update path for the staged record e
applyPut(cs, e) ==
    LET h == hash(e.key)
        w == putWalk(cs.bk, dbBucketIndex(h) + 1, h, e.key)
        originalB == IF w.originalB.id # 0 THEN w.originalB ELSE cs.originalB
        isNew == w.bh.entries[w.entryIdx].kvOffset = 0
        bh == [w.bh EXCEPT !.entries[w.entryIdx] =
                    [hash |-> h, key |-> e.key, value |-> e.value, kvOffset |-> 1]]
        bk1 == [w.bk EXCEPT ![w.id] = bh]
        bk2 == IF originalB.id # 0 THEN [bk1 EXCEPT ![originalB.id] = originalB.bh] ELSE bk1
    IN IF errFull(isNew, cs.count)
       THEN [cs EXCEPT !.bk = w.bk, !.originalB = originalB, !.err = "errFull"]
       ELSE [cs EXCEPT !.bk = bk2,
                       !.count = IF isNew THEN @ + 1 ELSE @,
                       !.filter = @ \cup {h},
                       !.originalB = originalB,
                       !.bad = @ \/ ~e.good]

\* first slot of the next bucket of a memdb chain
nextBucketStart(i) == (((i - 1) \div entriesPerBucket) + 1) * entriesPerBucket + 1

\* commit, the callback over one memdb bucket chain: records with
\* lo < seq <= hi are applied, seq > hi ends the commit scan.
RECURSIVE scanChain(_, _, _, _, _)
scanChain(cs, chain, i, lo, hi) ==
    IF cs.err # "nil" \/ i > Len(chain) THEN cs
    ELSE LET e == chain[i]
         IN IF e.seq <= lo THEN scanChain(cs, chain, i + 1, lo, hi)
            ELSE IF e.seq > hi THEN [cs EXCEPT !.err = "errBatchSeqComplete"]
            ELSE IF e.dFlag
                 THEN LET r == applyDel(cs, e)
                      IN IF r.found
                         THEN scanChain(r.cs, chain, i + 1, lo, hi)
                         ELSE scanChain(cs, chain, nextBucketStart(i), lo, hi)
                 ELSE scanChain(applyPut(cs, e), chain, i + 1, lo, hi)

\* commit, the loop "for bucketIdx < b.mem.nBuckets"
RECURSIVE scanBuckets(_, _, _, _, _)
scanBuckets(cs, buckets, bucketIdx, lo, hi) ==
    IF bucketIdx >= Len(buckets) THEN cs
    ELSE LET c == scanChain(cs, buckets[bucketIdx + 1], 1, lo, hi)
         IN IF c.err # "nil" THEN c
            ELSE scanBuckets(c, buckets, bucketIdx + 1, lo, hi)

\* b.seq - uint64(b.Len()) in unsigned arithmetic: it wraps around below 0
\* (uint64Mod stands for 2^64, scaled to the integers of TLC)
seqLow(seq, len) == (seq - len + uint64Mod) % uint64Mod

\* history: the committed view after the pending writes pw
RECURSIVE applyExpected(_, _, _)
applyExpected(exp, pw, i) ==
    IF i > Len(pw) THEN exp
    ELSE applyExpected([exp EXCEPT ![pw[i].key] = pw[i].value], pw, i + 1)

\* ---------------------------------------------------------- write-ahead log
\* Offsets and sizes are in bytes of a file with blocks of blockSize bytes.
\* A log occupies align(size + logHeaderSize) bytes at its offset: its header,
\* then size bytes of payload.

\* align rounds a length up to a whole number of blocks
align(n) == ((n + blockSize - 1) \div blockSize) * blockSize

\* the longest file of the model
DiskMax == headerSize + MaxLogs * align(MaxLogSize + logHeaderSize)

\* payload sizes of the logs written
LogSizes == {1, MaxLogSize}

\* a zeroed logInfo; payload bytes read as a log header give seq = 0 as well
noLog == [status |-> logStatusWritten, seq |-> 0, upperSeq |-> 0, size |-> 0, offset |-> 0]

\* a WAL struct before newWal has filled it
noWal ==
    [seq |-> 0, count |-> 0, logs |-> <<>>, size |-> 0,
     fb |-> [offset |-> 0, size |-> 0, currOffset |-> 0, currSize |-> 0]]

\* writeHeader: seq and the free blocks go to offset 0 of the file
writeHeader(w, d) == [d EXCEPT !.header = [seq |-> w.seq, fb |-> w.fb]]

\* readHeader
readHeader(w, d) == [w EXCEPT !.seq = d.header.seq, !.fb = d.header.fb]

\* recoverLogHeaders, from the given offset on
RECURSIVE recoverLogHeaders(_, _, _)
recoverLogHeaders(w, d, offset) ==
    IF offset + logHeaderSize > d.size
    THEN w
    ELSE LET l == d.data[offset]
         IN IF l.seq = 0 \/ l.seq > w.seq
            THEN w
            ELSE LET w1 == IF l.status = logStatusWritten
                           THEN [w EXCEPT !.count = @ + 1, !.logs = Append(@, l)]
                           ELSE w
                     o1 == l.offset + align(l.size + logHeaderSize)
                     o2 == IF o1 = w.fb.currOffset THEN o1 + w.fb.currSize ELSE o1
                 IN recoverLogHeaders(w1, d, o2)

\* recoverWal: the file size is aligned, then the log headers are walked
recoverWal(w, d) == recoverLogHeaders([w EXCEPT !.size = align(d.size)], d, headerSize)

\* put: upsert of a log descriptor keyed by offset
put(w, log) ==
    LET hit == {i \in 1..w.count : w.logs[i].offset = log.offset}
    IN IF hit # {}
       THEN [w EXCEPT !.logs[Min(hit)] = log]
       ELSE [w EXCEPT !.count = @ + 1, !.logs = Append(@, log)]

\* Scan: the (seq, upperSeq) pairs of the logs with status written
Scan(w) ==
    LET written == SelectSeq(SubSeq(w.logs, 1, w.count),
                             LAMBDA l : l.status = logStatusWritten)
    IN [i \in 1..Len(written) |-> <<written[i].seq, written[i].upperSeq>>]

\* file.allocate(n): from the tail of the current free region, else from the
\* tail of the stable region, else at the end of the file
allocate(w, n) ==
    IF w.fb.currSize >= n
    THEN [off |-> w.fb.currOffset + w.fb.currSize - n,
          w |-> [w EXCEPT !.fb.currSize = @ - n]]
    ELSE IF w.fb.size >= n
    THEN [off |-> w.fb.offset + w.fb.size - n,
          w |-> [w EXCEPT !.fb.size = @ - n]]
    ELSE [off |-> w.size, w |-> [w EXCEPT !.size = @ + n]]

\* the file after log, of n bytes with its header, was written at its offset
writeLogAt(d, log, n, size) ==
    [d EXCEPT !.size = IF size > @ THEN size ELSE @,
              !.data = [o \in DOMAIN @ |->
                            IF o = log.offset THEN log
                            ELSE IF o > log.offset /\ o < log.offset + n THEN noLog
                            ELSE @[o]]]

\* one round of the loop of logMerge: the extent of applied log l joins the
\* current or the stable free region, and the stable region collapses into
\* the current one when it reaches it
mergeStep(fb, l) ==
    IF fb.currOffset + fb.currSize = l.offset
    THEN [fb EXCEPT !.currSize = @ + align(l.size + logHeaderSize)]
    ELSE LET fb1 == IF fb.offset + fb.size = l.offset
                    THEN [fb EXCEPT !.size = @ + align(l.size + logHeaderSize)]
                    ELSE fb
         IN IF fb1.size # 0 /\ fb1.offset + fb1.size >= fb1.currOffset
            THEN [fb1 EXCEPT !.currOffset = fb1.offset,
                             !.currSize = @ + align(fb1.size),
                             !.size = 0]
            ELSE fb1

\* logMerge(idx): every applied log from idx on is merged
RECURSIVE logMerge(_, _)
logMerge(w, i) ==
    IF i > Len(w.logs)
    THEN w
    ELSE IF w.logs[i].status # logStatusApplied
    THEN logMerge(w, i + 1)
    ELSE logMerge([w EXCEPT !.fb = mergeStep(@, w.logs[i])], i + 1)

\* a variant of the condition below that leaves a log with upperSeq equal to
\* the given one written
signalsStrictlyBelow(l, upperSeq) ==
    l.status = logStatusWritten /\ l.upperSeq < upperSeq
\* the condition of SignalLogApplied's loop: the log is written and its
\* upperSeq is at most the given one
signals(l, upperSeq) ==
    l.status = logStatusWritten /\ l.upperSeq <= upperSeq

\* the loop of SignalLogApplied over the logs sorted by offset: a written log
\* with upperSeq <= the given one is marked applied in memory and on disk,
\* then logMerge runs and rewrites the header
RECURSIVE signalLoop(_, _, _, _)
signalLoop(w, d, i, upperSeq) ==
    IF i > Len(w.logs)
    THEN [w |-> w, d |-> d]
    ELSE IF signals(w.logs[i], upperSeq)
    THEN LET w1 == [w EXCEPT !.logs[i].status = logStatusApplied]
             d1 == [d EXCEPT !.data[w1.logs[i].offset] = w1.logs[i]]
             w2 == logMerge(w1, i)
         IN signalLoop(w2, writeHeader(w2, d1), i + 1, upperSeq)
    ELSE signalLoop(w, d, i + 1, upperSeq)

\* newWal on an empty file: the header is allocated and written
newWal ==
    LET fb0 == [offset |-> headerSize, size |-> 0, currOffset |-> headerSize, currSize |-> 0]
        w == [noWal EXCEPT !.size = headerSize, !.fb = fb0]
    IN /\ wal = w
       /\ disk = writeHeader(w, [size |-> headerSize, header |-> <<>>,
                                 data |-> [o \in headerSize..(DiskMax - 1) |-> noLog]])
       /\ wal_pc = "open"
       /\ wal_crashes = 0

Threads == 1..NThreads

\* no thread is in Write or commit, the channel is empty, the mutex free
lockInit ==
    /\ pc = [t \in Threads |-> "idle"]
    /\ writeLockC = 0
    /\ db_mu = 0
    /\ ret = [t \in Threads |-> "none"]
    /\ pending = [t \in Threads |-> FALSE]

\* db.data after Open of an empty database: no entry references a blob
dataInit ==
    data = [entry |-> [k \in DataKeys |-> 0], blobs |-> {}, free |-> {}, freed |-> <<>>,
            count |-> 0]

\* no thread is in WAL.put and wal.mu is free
wputInit ==
    wput = [pc |-> [t \in PutThreads |-> "idle"], l |-> [t \in PutThreads |-> 0],
            log |-> [t \in PutThreads |-> noLog], mu |-> 0]

\* a Reader struct before Read or Iterator has filled it
noReader == [logData |-> <<>>, blockOffset |-> 0, entryCount |-> 0]

\* no Reader exists over the logs
readerIdle(logs) ==
    [logs |-> logs, kind |-> "none", r |-> noReader, err |-> FALSE, asked |-> 0,
     src |-> <<>>, out |-> <<>>]

readerInit == reader = readerIdle(<<>>)

\* a Batch without records, at byte level
noByteBatch == [data |-> <<>>, index |-> <<>>, internalLen |-> 0]

appInit == app = [b |-> noByteBatch, bnew |-> noByteBatch, appends |-> 0]

\* newDataWriter over a data table whose lease holds two free blocks
\* (offset, size) and whose data ends at dwStart
newDataWriter(lease, offset) ==
    [offset |-> offset, leasing |-> {}, lease |-> lease, obtained |-> {},
     rolled |-> FALSE, ret |-> [off |-> 0, err |-> FALSE]]

\* the free blocks <<offset, size>> of the lease at the start
LeaseBlocks == {<<1, 1>>, <<2, 2>>}

dwInit == dw = newDataWriter(LeaseBlocks, dwStart)

\* the threads that call WAL.Close and those that call SignalLogApplied
CloseThreads == {1, 2}

SigThreads == {3, 4}

\* the WAL is open, no thread is in Close or in SignalLogApplied
wcloseInit ==
    wclose = [pc |-> [t \in CloseThreads \cup SigThreads |-> "idle"],
              ret |-> [t \in CloseThreads |-> "none"],
              closed |-> 0, wg |-> 0, mu |-> 0, fileClosed |-> FALSE, wrote |-> FALSE]

auxInit ==
    /\ dataInit
    /\ wputInit
    /\ readerInit
    /\ wal_ret = "nil"
    /\ appInit
    /\ dwInit
    /\ wcloseInit

NoBatch ==
    [index |-> <<>>, pendingWrites |-> <<>>, keys |-> EmptyBag, seq |-> 0,
     firstKeyHash |-> 0, mem |-> FALSE]

\* the state after Open and before any Batch: all but the auxiliary variables
coreInit ==
    /\ batch = [b \in Batches |-> NoBatch]
    /\ mem_seq = 0
    /\ activeBatches = <<>>
    /\ mem_buckets = [i \in 1..memNBuckets |-> <<>>]
    /\ mem_count = 0
    /\ mem_ref = 0
    /\ db_buckets = [i \in 1..dbNBuckets |-> emptyBucket]
    /\ db_count = 0
    /\ filter = {}
    /\ st = [b \in Batches |-> "none"]
    /\ expected = [k \in Keys |-> 0]
    /\ badApplied = FALSE
    /\ newWal
    /\ idx_originalB = noBucket
    /\ lockInit

Init ==
    /\ coreInit
    /\ auxInit

\* Batch.init (db.Batch): take a reference on the memdb.  init panics when
\* the batch already holds a memdb, so it is enabled only without one; a
\* batch object is initialised once.
init(b) ==
    /\ ~batch[b].mem
    /\ st[b] = "none"
    /\ batch' = [batch EXCEPT ![b].mem = TRUE]
    /\ mem_ref' = mem_ref + 1
    /\ st' = [st EXCEPT ![b] = "open"]
    /\ UNCHANGED <<mem_seq, activeBatches, mem_buckets, mem_count, db_buckets,
                   db_count, filter, expected, badApplied>>
    /\ UNCHANGED <<walVars, idxVars, lockVars, auxVars>>

\* Batch.Put / Batch.Delete through appendRec (b.mem.hash needs b.mem)
appendRec(b, dFlag, key, value) ==
    /\ batch[b].mem
    /\ Len(batch[b].index) < MaxLen
    /\ SumLen(batch, NBatches) < MaxOps
    /\ batch' = [batch EXCEPT ![b].index = Append(@, batchIndex(dFlag, key, value))]
    /\ UNCHANGED <<mem_seq, activeBatches, mem_buckets, mem_count, mem_ref,
                   db_buckets, db_count, filter, st, expected, badApplied>>
    /\ UNCHANGED <<walVars, idxVars, lockVars, auxVars>>

Put(b, key, value) == appendRec(b, FALSE, key, value)

Delete(b, key) == appendRec(b, TRUE, key, 0)

\* Batch.Write, the whole body under writeLockC (grouped batches are not
\* part of the model: b.grouped is false)
Write(b) ==
    /\ batch[b].mem
    /\ LET pw == uniq(batch[b].index)
           keys == batch[b].keys (+) uniqKeys(batch[b].index)
           ws0 == [seq |-> mem_seq, firstKeyHash |-> batch[b].firstKeyHash,
                   mem |-> [buckets |-> mem_buckets, count |-> mem_count],
                   err |-> "nil"]
           err == writeInternal(ws0, pw, 1, b, TRUE).err
           ws == writeInternal(ws0, pw, 1, b, err = "nil")
       IN /\ mem_seq + Len(pw) <= MaxSeq
          /\ BagCardinality(keys) <= MaxKeysLen
          /\ batch' = [batch EXCEPT ![b].pendingWrites = pw,
                                    ![b].keys = keys,
                                    ![b].seq = ws.seq,
                                    ![b].firstKeyHash = ws.firstKeyHash]
          /\ mem_buckets' = ws.mem.buckets
          /\ mem_count' = ws.mem.count
          /\ IF err = "nil"
             THEN /\ activeBatches' =
                        [s \in (DOMAIN activeBatches) \cup {ws.seq} |->
                            IF s = ws.seq THEN keys ELSE activeBatches[s]]
                  /\ mem_seq' = ws.seq
             ELSE UNCHANGED <<activeBatches, mem_seq>>
          /\ st' = [st EXCEPT ![b] = IF err = "nil" THEN "written" ELSE "failed"]
    /\ UNCHANGED <<mem_ref, db_buckets, db_count, filter, expected, badApplied>>
    /\ UNCHANGED <<walVars, idxVars, lockVars, auxVars>>

\* Batch.Reset
Reset(b) ==
    /\ batch[b].index # <<>>
    /\ batch' = [batch EXCEPT ![b].index = <<>>]
    /\ UNCHANGED <<mem_seq, activeBatches, mem_buckets, mem_count, mem_ref,
                   db_buckets, db_count, filter, st, expected, badApplied>>
    /\ UNCHANGED <<walVars, idxVars, lockVars, auxVars>>

\* history: the records a written batch staged become records of an aborted Write
markAborted(buckets, b, lo, hi) ==
    [i \in 1..Len(buckets) |->
        [j \in 1..Len(buckets[i]) |->
            IF buckets[i][j].owner = b /\ buckets[i][j].seq > lo /\ buckets[i][j].seq <= hi
            THEN [buckets[i][j] EXCEPT !.good = FALSE]
            ELSE buckets[i][j]]]

\* Batch.Abort: Reset, decref, b.mem = nil (b.mem.decref needs b.mem)
Abort(b) ==
    /\ batch[b].mem
    /\ batch' = [batch EXCEPT ![b].index = <<>>, ![b].mem = FALSE]
    /\ mem_ref' = mem_ref - 1
    /\ st' = [st EXCEPT ![b] = "aborted"]
    /\ mem_buckets' = IF st[b] = "written"
                      THEN markAborted(mem_buckets, b,
                                       batch[b].seq - Len(batch[b].pendingWrites), batch[b].seq)
                      ELSE mem_buckets
    /\ UNCHANGED <<mem_seq, activeBatches, mem_count, db_buckets,
                   db_count, filter, expected, badApplied>>
    /\ UNCHANGED <<walVars, idxVars, lockVars, auxVars>>

\* Batch.Commit and Batch.commit, the whole body under db.mu
Commit(b) ==
    /\ LET B == batch[b]
           run == B.mem /\ mem_ref # 0 /\ Len(B.pendingWrites) # 0
           cs0 == [bk |-> db_buckets, count |-> db_count, filter |-> filter,
                   originalB |-> noBucket, err |-> "nil", bad |-> FALSE]
           cs == IF run
                 THEN scanBuckets(cs0, mem_buckets,
                                  memBucketIndex(B.firstKeyHash, Len(mem_buckets)),
                                  seqLow(B.seq, Len(B.pendingWrites)), B.seq)
                 ELSE cs0
           err == IF cs.err = "errBatchSeqComplete" THEN "nil" ELSE cs.err
       IN /\ db_buckets' = cs.bk
          /\ db_count' = cs.count
          /\ filter' = cs.filter
          /\ activeBatches' =
                IF run /\ err = "nil"
                THEN [s \in (DOMAIN activeBatches) \ {B.seq} |-> activeBatches[s]]
                ELSE activeBatches
          /\ st' = [st EXCEPT ![b] = IF ~B.mem THEN @
                                     ELSE IF err # "nil" THEN "commitFailed"
                                     ELSE IF @ = "written" THEN "committed"
                                     ELSE "committedUnwritten"]
          /\ expected' = IF st[b] = "written" /\ err = "nil"
                         THEN applyExpected(expected, B.pendingWrites, 1)
                         ELSE expected
          /\ badApplied' = (badApplied \/ cs.bad)
    /\ UNCHANGED <<batch, mem_seq, mem_buckets, mem_count, mem_ref>>
    /\ UNCHANGED <<walVars, idxVars, lockVars, auxVars>>

\* A batch is used for one transaction, as db.Batch uses it: records are
\* added, the batch is written once, then committed or aborted.  Batches are
\* interchangeable, so they are taken into use in the order of their numbers;
\* Put and Delete touch nothing but their own batch, so one batch is filled
\* at a time (Write, Commit and Abort of all batches interleave freely).
Next ==
    \/ \E b \in Batches : (\A c \in Batches : st[c] # "open" /\ (c < b => st[c] # "none"))
                                /\ init(b)
    \/ \E b \in Batches, k \in Keys, v \in Values : st[b] = "open" /\ Put(b, k, v)
    \/ \E b \in Batches, k \in Keys : st[b] = "open" /\ Delete(b, k)
    \/ \E b \in Batches : st[b] = "open" /\ Write(b)
    \/ \E b \in Batches : st[b] \in {"written", "failed"} /\ Commit(b)
    \/ \E b \in Batches : st[b] \in {"open", "written", "failed"} /\ Abort(b)

Spec == Init /\ [][Next]_vars

\* ------------------------------------------------- specification of the WAL
\* The log writer: NextSeq, allocate, the log with status written goes to the
\* file, put.  The header of the file is not written here; the writer's next
\* step is Sync.  upperSeq is the caller's upper sequence of the batch in the
\* log: the seq of the log, or a later one.
AppendLog(size, upperSeq) ==
    /\ wal_pc \in {"open", "recovered"}
    /\ wal.seq < MaxLogs
    /\ LET w1 == [wal EXCEPT !.seq = @ + 1]
           n == align(size + logHeaderSize)
           a == allocate(w1, n)
           log == [status |-> logStatusWritten, seq |-> w1.seq, upperSeq |-> upperSeq,
                   size |-> size, offset |-> a.off]
       IN /\ a.off + n <= DiskMax
          /\ wal' = put(a.w, log)
          /\ disk' = writeLogAt(disk, log, n, a.w.size)
    /\ wal_pc' = "written"
    /\ UNCHANGED <<batch, mem_seq, activeBatches, mem_buckets, mem_count, mem_ref,
                   db_buckets, db_count, filter, st, expected, badApplied>>
    /\ UNCHANGED <<wal_crashes, idxVars, lockVars, auxVars>>

\* Sync: writeHeader, then the file is synced
Sync ==
    /\ wal_pc \in {"open", "written", "recovered"}
    /\ disk' = writeHeader(wal, disk)
    /\ wal_pc' = "open"
    /\ UNCHANGED <<batch, mem_seq, activeBatches, mem_buckets, mem_count, mem_ref,
                   db_buckets, db_count, filter, st, expected, badApplied, wal, wal_crashes, idxVars, lockVars, auxVars>>

SignalLogApplied(upperSeq) ==
    /\ wal_pc \in {"open", "recovered"}
    /\ LET sorted == SortSeq(wal.logs, LAMBDA a, b : a.offset < b.offset)
           r == signalLoop([wal EXCEPT !.logs = sorted], disk, 1, upperSeq)
       IN /\ wal' = r.w
          /\ disk' = r.d
    /\ wal_pc' = "open"
    /\ UNCHANGED <<batch, mem_seq, activeBatches, mem_buckets, mem_count, mem_ref,
                   db_buckets, db_count, filter, st, expected, badApplied>>
    /\ UNCHANGED <<wal_crashes, idxVars, lockVars, auxVars>>

\* the process dies: the WAL struct is lost, the file stays as written
Crash ==
    /\ wal_pc # "crashed"
    /\ wal_crashes < MaxCrashes
    /\ wal_crashes' = wal_crashes + 1
    /\ wal' = noWal
    /\ wal_pc' = "crashed"
    /\ UNCHANGED <<batch, mem_seq, activeBatches, mem_buckets, mem_count, mem_ref,
                   db_buckets, db_count, filter, st, expected, badApplied, disk, idxVars, lockVars, auxVars>>

\* newWal on the file left by the crash: readHeader, then recoverWal
Recover ==
    /\ wal_pc = "crashed"
    /\ wal' = recoverWal(readHeader(noWal, disk), disk)
    /\ disk' = [disk EXCEPT !.size = align(@)]
    /\ wal_pc' = "recovered"
    /\ UNCHANGED <<batch, mem_seq, activeBatches, mem_buckets, mem_count, mem_ref,
                   db_buckets, db_count, filter, st, expected, badApplied>>
    /\ UNCHANGED <<wal_crashes, idxVars, lockVars, auxVars>>

NextWal ==
    \/ \E size \in LogSizes, upperSeq \in {wal.seq + 1, MaxLogs} : AppendLog(size, upperSeq)
    \/ Sync
    \/ \E upperSeq \in 1..MaxLogs : SignalLogApplied(upperSeq)
    \/ Crash
    \/ Recover

SpecWal == Init /\ [][NextWal]_vars

\* ------------------------------------------------- specification of uniq
\* The index of batch 1 is drawn from the sequences of at most MaxUniqLen
\* records over UniqKeys (two of these keys have the same hash); the only
\* step is its Write, which runs uniq.
MaxUniqLen == 3

UniqKeys == 1..(HashRange + 1)

UniqRecords == {batchIndex(d, k, 1) : d \in BOOLEAN, k \in UniqKeys}

UniqIndexes == UNION {[1..n -> UniqRecords] : n \in 0..MaxUniqLen}

InitUniq ==
    /\ batch \in {[b \in Batches |-> IF b = 1 THEN [NoBatch EXCEPT !.index = ix, !.mem = TRUE]
                                     ELSE NoBatch] : ix \in UniqIndexes}
    /\ mem_seq = 0
    /\ activeBatches = <<>>
    /\ mem_buckets = [i \in 1..memNBuckets |-> <<>>]
    /\ mem_count = 0
    /\ mem_ref = 1
    /\ db_buckets = [i \in 1..dbNBuckets |-> emptyBucket]
    /\ db_count = 0
    /\ filter = {}
    /\ st = [b \in Batches |-> IF b = 1 THEN "open" ELSE "none"]
    /\ expected = [k \in Keys |-> 0]
    /\ badApplied = FALSE
    /\ newWal
    /\ idx_originalB = noBucket
    /\ lockInit
    /\ auxInit

NextUniq == st[1] = "open" /\ Write(1)

SpecUniq == InitUniq /\ [][NextUniq]_vars

\* ------------------------------------------------------------ properties
\* the hashes of the records of a sequence of batch records
hashesOf(recs) == {recs[i].hash : i \in 1..Len(recs)}

\* the key hashes of batch b: those of its records and, once Abort has reset
\* the index, those of the pending writes of its Write
batchHashes(b) == hashesOf(batch[b].index) \cup hashesOf(batch[b].pendingWrites)

\* batches a and b have a key hash in common
shareHash(a, b) == batchHashes(a) \cap batchHashes(b) # {}

\* Write has been called on batch b and b has neither been committed nor aborted
writeReturned(b) == st[b] \in {"written", "failed"}

\* C1: of two batches that share a key hash and were both written before
\* either was committed or aborted (no third written batch sharing a hash
\* with them), exactly one Write returned nil and the other returned
\* errWriteConflict (the only Write error of this model).
C1_ExactlyOneWrite ==
    \A a, b \in Batches :
        (/\ a # b
         /\ writeReturned(a) /\ writeReturned(b)
         /\ shareHash(a, b)
         /\ \A c \in Batches \ {a, b} :
                st[c] \in {"none", "open"} \/ (~shareHash(a, c) /\ ~shareHash(b, c)))
        => ((st[a] = "written") # (st[b] = "written"))

\* the step is the Write of batch b
isWriteOf(b) == st[b] = "open" /\ st'[b] \in {"written", "failed"}

\* C4: while a successfully written batch a is not committed, the Write of a
\* batch b sharing a hash with a returns errWriteConflict; when every batch
\* sharing a hash with b has had its Commit return (or was never written
\* successfully), the Write of b returns nil.
C4_ConflictUntilCommit ==
    [][\A b \in Batches :
          isWriteOf(b) =>
            /\ (\E a \in Batches \ {b} : st[a] = "written" /\ shareHash(a, b))
                    => st'[b] = "failed"
            /\ (\A a \in Batches \ {b} :
                    shareHash(a, b) => st[a] \notin {"written", "aborted"})
                    => st'[b] = "written"]_vars

\* C5: a batch written successfully and not yet committed or aborted has
\* its fingerprint list in activeBatches under its seq.
C5_ActiveBatchPresent ==
    \A b \in Batches :
        st[b] = "written" =>
            /\ batch[b].seq \in DOMAIN activeBatches
            /\ activeBatches[batch[b].seq] = batch[b].keys

\* all records staged in the memdb
memEntries == UNION {{mem_buckets[i][j] : j \in 1..Len(mem_buckets[i])} : i \in 1..Len(mem_buckets)}

\* C6: no two records staged by different batches carry the same sequence
\* number, and the records of a successfully written batch carry the
\* sequence numbers seq_before+1 .. seq_before+Len in pending-write order.
C6_SeqRangeReserved ==
    /\ \A e, f \in memEntries : e.owner # f.owner => e.seq # f.seq
    /\ \A b \in Batches :
          st[b] = "written" =>
            \A i \in 1..Len(batch[b].pendingWrites) :
                \E e \in memEntries :
                    /\ e.key = batch[b].pendingWrites[i].key
                    /\ e.owner = b
                    /\ e.seq = batch[b].seq - Len(batch[b].pendingWrites) + i

\* the buckets of the chain that starts at bucket id
RECURSIVE chainOf(_, _)
chainOf(bk, id) == IF bk[id].next = 0 THEN {id} ELSE {id} \cup chainOf(bk, bk[id].next)

\* the slots of the chain of key that hold an entry for key
slotsOf(bk, key) ==
    {<<id, i>> \in chainOf(bk, dbBucketIndex(hash(key)) + 1) \X (1..entriesPerBucket) :
        bk[id].entries[i].kvOffset # 0 /\ bk[id].entries[i].key = key}

\* C2: after batches that were each written and committed successfully, a
\* lookup returns the value of the latest committed put of the key and
\* misses when the latest committed operation on the key was a delete.
C2_LatestCommitted ==
    (\A b \in Batches : st[b] \in {"none", "open", "committed"})
        => \A k \in Keys : Lookup(db_buckets, k) = expected[k]

\* C3: when the Commit of a successfully written batch returns nil, every
\* pending write of the batch has been applied to the durable index.
C3_PendingApplied ==
    [][\A b \in Batches :
          (st[b] = "written" /\ st'[b] = "committed") =>
            \A i \in 1..Len(batch[b].pendingWrites) :
                Lookup(db_buckets', batch[b].pendingWrites[i].key)
                    = batch[b].pendingWrites[i].value]_vars

\* C8: at most one entry per key across the chain of the key
C8_OneEntryPerKey ==
    \A k \in Keys : Cardinality(slotsOf(db_buckets, k)) <= 1

\* C9: no commit applies a record of a batch that was aborted or whose
\* Write returned an error.
C9_NoEffectOfFailed == ~badApplied

\* the positions of the last occurrence of each hash in index
lastPos(index) ==
    {i \in 1..Len(index) : \A j \in (i + 1)..Len(index) : index[j].hash # index[i].hash}

\* C7: pendingWrites holds, for each hash of the index, exactly its
\* rightmost record, in the order of the index.
C7_UniqKeepsLatestInOrder ==
    st[1] # "open" =>
        LET ix == batch[1].index
            pw == batch[1].pendingWrites
            L == lastPos(ix)
        IN /\ Len(pw) = Cardinality(L)
           /\ \A h \in hashesOf(ix) : Cardinality({p \in 1..Len(pw) : pw[p].hash = h}) = 1
           /\ \A i \in L : pw[Cardinality({j \in L : j <= i})] = ix[i]

\* C7 witness: uniq ran on an index with a repeated hash and two distinct hashes
C7_Witness ==
    /\ st[1] # "open"
    /\ Len(batch[1].index) = 3
    /\ Len(batch[1].pendingWrites) = 2
    /\ batch[1].index[1].hash = batch[1].index[3].hash
    /\ batch[1].index[1].key # batch[1].index[3].key

\* the logs on disk with status written: no free region holds one, a log is
\* reclaimed only after its status on disk became applied
onDiskWritten ==
    {<<l.seq, l.upperSeq>> :
        l \in {disk.data[o] : o \in {o \in DOMAIN disk.data :
                    /\ o < disk.size
                    /\ disk.data[o].seq # 0
                    /\ disk.data[o].status = logStatusWritten}}}

\* C10: after a crash and the reopening of the WAL, Scan returns exactly the
\* (seq, upperSeq) pairs of the logs on disk with status written, each once.
C10_ScanAfterCrash ==
    wal_pc = "recovered" =>
        /\ {Scan(wal)[i] : i \in DOMAIN Scan(wal)} = onDiskWritten
        /\ Len(Scan(wal)) = Cardinality(onDiskWritten)

\* the (seq, upperSeq) pairs Scan returns
scanSet(w) == {Scan(w)[i] : i \in DOMAIN Scan(w)}

\* C11: after SignalLogApplied(u), every log that was written with
\* upperSeq <= u is applied in the log list and on disk and Scan returns no
\* log with upperSeq <= u; every log with upperSeq > u that Scan returned
\* before is written and returned by Scan after.
C11_AppliedUpTo ==
    [][\A u \in 1..MaxLogs :
          SignalLogApplied(u) =>
            /\ \A p \in scanSet(wal') : p[2] > u
            /\ \A p \in scanSet(wal) : p[2] > u => p \in scanSet(wal')
            /\ \A i \in 1..Len(wal.logs) :
                  (wal.logs[i].status = logStatusWritten /\ wal.logs[i].upperSeq <= u)
                    => /\ disk'.data[wal.logs[i].offset].status = logStatusApplied
                       /\ \E j \in 1..Len(wal'.logs) :
                             /\ wal'.logs[j].offset = wal.logs[i].offset
                             /\ wal'.logs[j].status = logStatusApplied]_vars

\* C11 witness: a log is applied while an older log with a greater upperSeq
\* is still written, which only a SignalLogApplied between the two upperSeqs
\* leaves behind
C11_Witness ==
    /\ wal_pc = "open"
    /\ \E i, j \in 1..Len(wal.logs) :
          /\ wal.logs[i].status = logStatusApplied
          /\ wal.logs[j].status = logStatusWritten
          /\ wal.logs[j].seq < wal.logs[i].seq
          /\ wal.logs[j].upperSeq > wal.logs[i].upperSeq
          /\ <<wal.logs[j].seq, wal.logs[j].upperSeq>> \in scanSet(wal)

\* the bytes [off, off + size) and [off2, off2 + size2) have one in common
overlaps(off, size, off2, size2) ==
    size > 0 /\ size2 > 0 /\ off < off2 + size2 /\ off2 < off + size

\* the extent of a log on disk: its header and payload, aligned
extentSize(l) == align(l.size + logHeaderSize)

\* the logs whose status is written: those of the log list of the WAL and
\* those whose header on disk carries the status
writtenLogs ==
    {wal.logs[i] : i \in {j \in 1..Len(wal.logs) : wal.logs[j].status = logStatusWritten}}
      \cup {disk.data[o] : o \in {o \in DOMAIN disk.data :
                                    /\ o < disk.size
                                    /\ disk.data[o].seq # 0
                                    /\ disk.data[o].status = logStatusWritten}}

idxRecord(key, value, dFlag, seq) ==
    [hash |-> hash(key), key |-> key, seq |-> seq, dFlag |-> dFlag,
     value |-> IF dFlag THEN 0 ELSE value, owner |-> 0, good |-> TRUE]

IdxRecords == {idxRecord(k, 1, d, 1) : k \in IdxKeys, d \in BOOLEAN}

\* the commit state on the durable index as it is
idxState(origB) ==
    [bk |-> db_buckets, count |-> db_count, filter |-> filter,
     originalB |-> origB, err |-> "nil", bad |-> FALSE]

\* the delete path or the insert/update path, by dFlag
applyRec(cs, e) == IF e.dFlag THEN applyDel(cs, e).cs ELSE applyPut(cs, e)

\* commit applies one record; an error ends the commit.  The index file is
\* followed up to MaxIdxBuckets buckets and db.count down to MaxIdxUnder
\* below zero.
IdxApply(e) ==
    /\ LET cs == applyRec(idxState(idx_originalB), e)
       IN /\ Len(cs.bk) <= MaxIdxBuckets
          /\ cs.count + MaxIdxUnder >= 0
          /\ db_buckets' = cs.bk
          /\ db_count' = cs.count
          /\ filter' = cs.filter
          /\ idx_originalB' = IF cs.err = "nil" THEN cs.originalB ELSE noBucket
    /\ UNCHANGED <<batch, mem_seq, activeBatches, mem_buckets, mem_count, mem_ref,
                   st, expected, badApplied, walVars, lockVars, auxVars>>

\* commit returns: the next commit starts without originalB
IdxCommitEnd ==
    /\ idx_originalB # noBucket
    /\ idx_originalB' = noBucket
    /\ UNCHANGED <<batch, mem_seq, activeBatches, mem_buckets, mem_count, mem_ref,
                   db_buckets, db_count, filter, st, expected, badApplied, walVars, lockVars, auxVars>>

NextIdx ==
    \/ \E e \in IdxRecords : IdxApply(e)
    \/ IdxCommitEnd

SpecIdx == Init /\ [][NextIdx]_vars

\* the entries of the chain of base bucket id, slot by slot
RECURSIVE chainEntries(_, _)
chainEntries(bk, id) ==
    [i \in 1..entriesPerBucket |-> bk[id].entries[i]]
      \o (IF bk[id].next = 0 THEN <<>> ELSE chainEntries(bk, bk[id].next))

\* the contents of the durable index: the entries of every chain
idxContents(bk) == [i \in 1..dbNBuckets |-> chainEntries(bk, i)]

\* record e applied twice on cs leaves the contents and the count of e
\* applied once, in the same commit and in a later one
twiceAsOnce(cs, e) ==
    LET once == applyRec(cs, e)
    IN \A origB \in {once.originalB, noBucket} :
          LET twice == applyRec([once EXCEPT !.err = "nil", !.originalB = origB], e)
          IN /\ idxContents(twice.bk) = idxContents(once.bk)
             /\ twice.count = once.count

\* C13: applying the same record (put or delete of a key) to the durable
\* index twice yields the same index contents and the same count as applying
\* it once.
C13_ApplyTwice ==
    \A e \in IdxRecords : \A origB \in {idx_originalB, noBucket} :
        twiceAsOnce(idxState(origB), e)

\* the value a lookup of key returns after the newer record eNew and then the
\* older record eOld were applied on cs
afterOlder(cs, eNew, eOld) ==
    Lookup(applyRec(applyRec(cs, eNew), eOld).bk, eNew.key)

\* C14: an older record (lower seq) of a key, put or delete, applied to an
\* index that holds the value of a newer put of the key does not change the
\* value a lookup of the key returns.
C14_OlderDoesNotRevert ==
    \A k \in IdxKeys, vNew \in IdxValues, vOld \in IdxValues, d \in BOOLEAN :
      \A sNew \in IdxSeqs, sOld \in IdxSeqs :
        LET eNew == idxRecord(k, vNew, FALSE, sNew)
            eOld == idxRecord(k, vOld, d, sOld)
            cNew == applyRec(idxState(noBucket), eNew)
        IN (sOld < sNew /\ cNew.err = "nil" /\ Lookup(cNew.bk, k) = vNew)
              => afterOlder(idxState(noBucket), eNew, eOld) = vNew

liveBatches == {b \in Batches : st[b] \in {"open", "written", "failed"}}

\* C16: the reference count of the memdb is the number of batches that were
\* initialised and neither committed nor aborted (init takes one reference,
\* Commit and Abort each give it back once), and it is never below zero.
C16_RefCount ==
    /\ mem_ref >= 0
    /\ mem_ref = Cardinality(liveBatches)

\* ------------------------------------------------ threads, locks of the DB
\* Threads call Write and Commit on batches of their own.  A step is what a
\* thread does between two lock operations; the exit path of a Write is an
\* input.

dataVars == <<batch, mem_seq, activeBatches, mem_buckets, mem_count, mem_ref,
              db_buckets, db_count, filter, st, expected, badApplied, walVars, idxVars, auxVars>>

\* the exit paths of Write: success, the return of a grouped batch, a
\* validation error of mput, errWriteConflict, an error of memdb put or split
WriteExits == {"nil", "grouped", "errKey", "errWriteConflict", "errMem"}

\* Write is called: the thread is at the send on writeLockC
StartWrite(t) ==
    /\ pc[t] = "idle"
    /\ pc' = [pc EXCEPT ![t] = "write_wait"]
    /\ UNCHANGED <<writeLockC, db_mu, ret, pending, dataVars>>

\* b.db.writeLockC <- struct{}{}: the send goes through when the slot is empty
AcquireWrite(t) ==
    /\ pc[t] = "write_wait"
    /\ writeLockC = 0
    /\ writeLockC' = t
    /\ pc' = [pc EXCEPT ![t] = "write_body"]
    /\ UNCHANGED <<db_mu, ret, pending, dataVars>>

\* the body of Write up to its return: uniq, then the grouped return or
\* getSeq, mput of every record (hasWriteConflict, memdb put and split), and
\* on success the insertion into activeBatches and setSeq
WriteBody(t, exit) ==
    /\ pc[t] = "write_body"
    /\ pc' = [pc EXCEPT ![t] = "write_exit"]
    /\ ret' = [ret EXCEPT ![t] = exit]
    /\ pending' = [pending EXCEPT ![t] = TRUE]
    /\ UNCHANGED <<writeLockC, db_mu, dataVars>>

\* a variant of the function below with a receive on the success path only
deferredOnSuccess(exit) == exit = "nil"
\* the deferred receive from writeLockC runs on the exit path
deferred(exit) == exit \in WriteExits

\* Write returns: the deferred function runs
ReturnWrite(t) ==
    /\ pc[t] = "write_exit"
    /\ writeLockC' = IF deferred(ret[t]) THEN 0 ELSE writeLockC
    /\ pc' = [pc EXCEPT ![t] = "idle"]
    /\ ret' = [ret EXCEPT ![t] = "none"]
    /\ UNCHANGED <<db_mu, pending, dataVars>>

\* Commit is called on a batch with pendingWrites: the thread is at
\* b.db.mu.Lock()
StartCommit(t) ==
    /\ pc[t] = "idle"
    /\ pending[t]
    /\ pc' = [pc EXCEPT ![t] = "commit_wait"]
    /\ UNCHANGED <<writeLockC, db_mu, ret, pending, dataVars>>

\* b.db.mu.Lock()
AcquireMu(t) ==
    /\ pc[t] = "commit_wait"
    /\ db_mu = 0
    /\ db_mu' = t
    /\ pc' = [pc EXCEPT ![t] = "commit_scan"]
    /\ UNCHANGED <<writeLockC, ret, pending, dataVars>>

\* the loop of commit over the memdb buckets; an error returns before the
\* removal from activeBatches
CommitScan(t, ok) ==
    /\ pc[t] = "commit_scan"
    /\ pc' = [pc EXCEPT ![t] = IF ok THEN "commit_delete" ELSE "commit_exit"]
    /\ UNCHANGED <<writeLockC, db_mu, ret, pending, dataVars>>

\* delete(b.mem.activeBatches, b.seq)
CommitDelete(t) ==
    /\ pc[t] = "commit_delete"
    /\ pc' = [pc EXCEPT ![t] = "commit_exit"]
    /\ pending' = [pending EXCEPT ![t] = FALSE]
    /\ UNCHANGED <<writeLockC, db_mu, ret, dataVars>>

\* commit returns: the deferred b.db.mu.Unlock()
ReturnCommit(t) ==
    /\ pc[t] = "commit_exit"
    /\ db_mu' = 0
    /\ pc' = [pc EXCEPT ![t] = "idle"]
    /\ UNCHANGED <<writeLockC, ret, pending, dataVars>>

NextLock ==
    \/ \E t \in Threads : StartWrite(t)
    \/ \E t \in Threads : AcquireWrite(t)
    \/ \E t \in Threads, exit \in WriteExits : WriteBody(t, exit)
    \/ \E t \in Threads : ReturnWrite(t)
    \/ \E t \in Threads : StartCommit(t)
    \/ \E t \in Threads : AcquireMu(t)
    \/ \E t \in Threads, ok \in BOOLEAN : CommitScan(t, ok)
    \/ \E t \in Threads : CommitDelete(t)
    \/ \E t \in Threads : ReturnCommit(t)

SpecLock == Init /\ [][NextLock]_vars

\* a thread inside Write or commit goes on; a send on writeLockC blocked on
\* the full channel is served when the slot empties (the senders wait in
\* the queue of the channel)
FairLock ==
    \A t \in Threads :
        /\ SF_vars(AcquireWrite(t))
        /\ WF_vars(\E exit \in WriteExits : WriteBody(t, exit))
        /\ WF_vars(ReturnWrite(t))

SpecLockFair == SpecLock /\ FairLock

\* positions at which a thread mutates or reads the shared memdb state
inWrite(t) == pc[t] = "write_body"
inCommit(t) == pc[t] \in {"commit_scan", "commit_delete"}

\* C17: a thread that reads the memdb buckets or removes from activeBatches
\* in commit, or mutates the memdb in Write, holds writeLockC: no thread is
\* in the body of Write while another one is in the scan or the removal of
\* commit.
C17_MemdbUnderWriteLock ==
    /\ \A t \in Threads : (inWrite(t) \/ inCommit(t)) => writeLockC = t
    /\ \A t \in Threads, u \in Threads : ~(inWrite(t) /\ inCommit(u))

\* C18: at most one thread is in the body of Write, the token in writeLockC
\* is that of a thread inside Write (every exit path has taken its token
\* out), and a Write waiting at the send on writeLockC gets into its body.
C18_WriteLock ==
    /\ [](Cardinality({t \in Threads : pc[t] \in {"write_body", "write_exit"}}) <= 1)
    /\ [](\A t \in Threads : (pc[t] \in {"write_body", "write_exit"}) <=> (writeLockC = t))
    /\ \A t \in Threads : (pc[t] = "write_wait") ~> (pc[t] = "write_body")

\* C18 witness: a Write is leaving on an error path while another Write
\* waits at the send
C18_Witness ==
    \E t \in Threads, u \in Threads :
        /\ pc[t] = "write_exit" /\ ret[t] = "errWriteConflict"
        /\ pc[u] = "write_wait"

\* ------------------------------------- public operations in every order
\* One batch obtained from db.Batch takes Put, Delete, Write, Commit, Abort
\* and Reset in any order.  A method of the memdb called through b.mem = nil
\* dereferences the nil pointer and panics.

\* the operation on batch b reaches its call on b.mem while b.mem is nil
nilMem(b) ==
    /\ ~batch[b].mem
    /\ st[b] \notin {"none", "panic"}
    /\ st' = [st EXCEPT ![b] = "panic"]
    /\ UNCHANGED <<batch, mem_seq, activeBatches, mem_buckets, mem_count, mem_ref,
                   db_buckets, db_count, filter, expected, badApplied>>
    /\ UNCHANGED <<walVars, idxVars, lockVars, auxVars>>

\* appendRec: h := b.mem.hash(key)
appendRecNil(b) == nilMem(b)

\* Write: b.seq = b.mem.getSeq()
WriteNil(b) == nilMem(b)

\* Abort: b.mem.decref()
AbortNil(b) == nilMem(b)

NextApi ==
    \/ init(1)
    \/ \E k \in Keys, v \in Values : st[1] # "panic" /\ Put(1, k, v)
    \/ \E k \in Keys : st[1] # "panic" /\ Delete(1, k)
    \/ appendRecNil(1)
    \/ st[1] # "panic" /\ Write(1)
    \/ WriteNil(1)
    \/ st[1] \notin {"none", "panic"} /\ Commit(1)
    \/ st[1] # "panic" /\ Abort(1)
    \/ AbortNil(1)
    \/ st[1] # "panic" /\ Reset(1)

SpecApi == Init /\ [][NextApi]_vars

\* C19: no sequence of Put, Delete, Write, Commit, Abort and Reset on a
\* batch that is not managed panics (Abort twice and Abort after Commit
\* included).
C19_NoPanic == \A b \in Batches : st[b] # "panic"

\* ------------------------------------- deletes of keys the index lacks
\* Batches over two keys of different hashes that share a memdb bucket
\* (their hashes are equal modulo the bucket count after the split).
DelKeys == {1, 3}

DelBatches == {1, 2}

NextDel ==
    \/ \E b \in DelBatches : (\A c \in DelBatches : st[c] # "open" /\ (c < b => st[c] # "none"))
                                   /\ init(b)
    \/ \E b \in DelBatches, k \in DelKeys : st[b] = "open" /\ Put(b, k, 1)
    \/ \E b \in DelBatches, k \in DelKeys : st[b] = "open" /\ Delete(b, k)
    \/ \E b \in DelBatches : st[b] = "open" /\ Write(b)
    \/ \E b \in DelBatches : st[b] = "written" /\ Commit(b)

SpecDel == Init /\ [][NextDel]_vars

\* batch b has a pending delete of a key the durable index does not hold
deletesAbsent(b) ==
    \E i \in 1..Len(batch[b].pendingWrites) :
        /\ batch[b].pendingWrites[i].delFlag
        /\ slotsOf(db_buckets, batch[b].pendingWrites[i].key) = {}

\* C20: the commit of a written batch with a delete of a key the durable
\* index does not hold returns nil, leaves the key absent, and applies every
\* other pending write of the batch: each put is found by a lookup and each
\* deleted key is absent after the commit.
C20_AbsentDeleteSkipped ==
    [][\A b \in DelBatches :
          (st[b] = "written" /\ deletesAbsent(b) /\ Commit(b))
            => /\ st'[b] = "committed"
               /\ \A i \in 1..Len(batch[b].pendingWrites) :
                     LET r == batch[b].pendingWrites[i]
                     IN Lookup(db_buckets', r.key) = IF r.delFlag THEN 0 ELSE r.value]_vars

(***************************************************************************)
(* The data file behind the durable entries (batch.go 346-355, 391-417).   *)
(* data.entry[k] is the kvOffset of the durable entry of key k (0: empty   *)
(* slot), data.blobs the offsets that hold a blob as it was written,       *)
(* data.free the extents held by the allocator, data.freed the extents the *)
(* last commit callback handed to db.data.free, in call order, data.count  *)
(* is db.count.  A callback                                                *)
(* that handles one record is followed from its entry to its return, the   *)
(* deferred calls included.                                                *)
(***************************************************************************)

\* db.data.free: the extent goes to the allocator, its blob may be overwritten
dataFree(d, off) ==
    [d EXCEPT !.free = @ \cup {off}, !.blobs = @ \ {off}, !.freed = Append(@, off)]

\* db.data.writeKeyValue: the blob is written at an extent the allocator
\* gives, a free one or the end of the file; nothing is written on an error
writeKeyValue(d, off, ok) ==
    IF ok THEN [d EXCEPT !.blobs = @ \cup {off}, !.free = @ \ {off}] ELSE d

\* the offsets writeKeyValue can return: a free extent or the end of the file
dataAlloc(d) ==
    d.free \cup {o \in DataOffs : \A p \in DataOffs : (p \in d.blobs \cup d.free) => p < o}

\* bh.write: the bucket with the new entry reaches the file, or nothing does
bhWrite(d, k, off, ok) == IF ok THEN [d EXCEPT !.entry[k] = off] ELSE d

\* the put path from line 391 to the return of the callback: a new entry
\* returns errFull at MaxKeys and counts in db.count before anything is
\* written (lines 392-396), the deferred free of line 398 runs when the
\* callback returns, whatever it returns
putEntry(d, k, off, wkvOk, bhOk) ==
    LET old == d.entry[k]
        d0 == [d EXCEPT !.freed = <<>>]
        dc == IF old = 0 THEN [d0 EXCEPT !.count = @ + 1] ELSE d0
        d1 == writeKeyValue(dc, off, wkvOk)
        d2 == IF wkvOk THEN bhWrite(d1, k, off, bhOk) ELSE d1
    IN IF old = 0 /\ d.count = MaxKeys THEN d0
       ELSE IF old # 0 THEN dataFree(d2, old) ELSE d2

\* the delete path, lines 349-355: the extent is freed and db.count
\* decremented after bh.write succeeded
delEntry(d, k, bhOk) ==
    LET old == d.entry[k]
        d0 == [d EXCEPT !.freed = <<>>]
    IN IF bhOk THEN [dataFree(bhWrite(d0, k, 0, TRUE), old) EXCEPT !.count = @ - 1]
       ELSE d0

DataPut(k, off, wkvOk, bhOk) ==
    /\ off \in dataAlloc(data)
    /\ data' = putEntry(data, k, off, wkvOk, bhOk)
    /\ UNCHANGED <<batch, mem_seq, activeBatches, mem_buckets, mem_count, mem_ref,
                   db_buckets, db_count, filter, st, expected, badApplied,
                   walVars, idxVars, lockVars, auxButData>>

DataDelete(k, bhOk) ==
    /\ data.entry[k] # 0
    /\ data' = delEntry(data, k, bhOk)
    /\ UNCHANGED <<batch, mem_seq, activeBatches, mem_buckets, mem_count, mem_ref,
                   db_buckets, db_count, filter, st, expected, badApplied,
                   walVars, idxVars, lockVars, auxButData>>

NextData ==
    \/ \E k \in DataKeys, off \in DataOffs, wkvOk \in BOOLEAN, bhOk \in BOOLEAN :
          DataPut(k, off, wkvOk, bhOk)
    \/ \E k \in DataKeys, bhOk \in BOOLEAN : DataDelete(k, bhOk)

SpecData == Init /\ [][NextData]_vars

\* C21: a put that replaces the entry of an existing key frees the old
\* extent exactly once when the blob and the bucket were written, and when
\* writeKeyValue or the bucket write fails it frees nothing and the durable
\* entry still references the old blob, which is intact.
C21_FreeOnlyAfterWrite ==
    [][\A k \in DataKeys, off \in DataOffs, wkvOk \in BOOLEAN, bhOk \in BOOLEAN :
          (DataPut(k, off, wkvOk, bhOk) /\ data.entry[k] # 0) =>
              IF wkvOk /\ bhOk
              THEN data'.freed = <<data.entry[k]>> /\ data'.entry[k] = off
              ELSE /\ data'.freed = <<>>
                   /\ data'.entry[k] = data.entry[k]
                   /\ data.entry[k] \in data'.blobs
                   /\ data.entry[k] \notin data'.free]_vars


\* C22: a put that finds its chain full allocates an overflow bucket, places
\* the entry at index 0 of it and rewrites the predecessor with only its
\* next pointer changed; any other put writes the bucket of its entry and
\* no other bucket, so no older copy of a predecessor is written over it.
C22_PredecessorRewrite ==
    [][\A e \in IdxRecords :
          (IdxApply(e) /\ ~e.dFlag /\ applyRec(idxState(idx_originalB), e).err = "nil") =>
              LET w == putWalk(db_buckets, dbBucketIndex(hash(e.key)) + 1, hash(e.key), e.key)
                  n == Len(db_buckets')
              IN IF w.originalB.id # 0
                 THEN /\ n = Len(db_buckets) + 1
                      /\ db_buckets'[n].entries[1].key = e.key
                      /\ db_buckets'[w.originalB.id] =
                             [db_buckets[w.originalB.id] EXCEPT !.next = n]
                 ELSE /\ db_buckets'[w.id].entries[w.entryIdx].key = e.key
                      /\ \A i \in 1..n : i # w.id => db_buckets'[i] = db_buckets[i]]_vars


(***************************************************************************)
(* WAL.put step by step (wal.go 166-183): a thread reads wal.count with    *)
(* an atomic load, then takes wal.mu, then runs the loop and the append    *)
(* and releases wal.mu on return.                                          *)
(***************************************************************************)

\* the loop and the append of put, with the bound l read before the lock
putBody(w, log, l) ==
    LET hit == {i \in 1..l : w.logs[i].offset = log.offset}
    IN IF hit # {}
       THEN [w EXCEPT !.logs[Min(hit)] = log]
       ELSE [w EXCEPT !.count = @ + 1, !.logs = Append(@, log)]

\* the descriptors handed to put: one log header at one of two offsets
PutLogs ==
    {[status |-> s, seq |-> q, upperSeq |-> q, size |-> 1, offset |-> o] :
        s \in {logStatusWritten, logStatusApplied}, q \in 1..2,
        o \in {headerSize, headerSize + blockSize}}

\* l := wal.Count(), line 167; the list is followed up to MaxPutLogs calls
PutCount(t, log) ==
    /\ wput.pc[t] = "idle"
    /\ wal.count < MaxPutLogs
    /\ wput' = [wput EXCEPT !.pc[t] = "counted", !.l[t] = wal.count, !.log[t] = log]
    /\ UNCHANGED <<batch, mem_seq, activeBatches, mem_buckets, mem_count, mem_ref,
                   db_buckets, db_count, filter, st, expected, badApplied,
                   walVars, idxVars, lockVars, auxButWput>>

\* wal.mu.Lock(), line 168
PutLock(t) ==
    /\ wput.pc[t] = "counted"
    /\ wput.mu = 0
    /\ wput' = [wput EXCEPT !.pc[t] = "locked", !.mu = t]
    /\ UNCHANGED <<batch, mem_seq, activeBatches, mem_buckets, mem_count, mem_ref,
                   db_buckets, db_count, filter, st, expected, badApplied,
                   walVars, idxVars, lockVars, auxButWput>>

\* lines 170-182 and the deferred wal.mu.Unlock()
PutBody(t) ==
    /\ wput.pc[t] = "locked"
    /\ wal' = putBody(wal, wput.log[t], wput.l[t])
    /\ wput' = [wput EXCEPT !.pc[t] = "idle", !.mu = 0]
    /\ UNCHANGED <<batch, mem_seq, activeBatches, mem_buckets, mem_count, mem_ref,
                   db_buckets, db_count, filter, st, expected, badApplied,
                   disk, wal_pc, wal_crashes, idxVars, lockVars, auxButWput>>

NextPut ==
    \/ \E t \in PutThreads, log \in PutLogs : PutCount(t, log)
    \/ \E t \in PutThreads : PutLock(t)
    \/ \E t \in PutThreads : PutBody(t)

SpecPut == Init /\ [][NextPut]_vars

\* C23: whatever put calls have run, concurrently or not, the log list holds
\* at most one descriptor per offset and wal.count is its length.
C23_PutUpsert ==
    /\ wal.count = Len(wal.logs)
    /\ \A i, j \in 1..Len(wal.logs) :
          wal.logs[i].offset = wal.logs[j].offset => i = j


(***************************************************************************)
(* The log Reader (wal.go 200-239, reader.go 79-93).  A payload is a       *)
(* sequence of bytes; a sub-record is a 4-byte little-endian length,       *)
(* which counts the 4 bytes, followed by the body.  reader.logs are the    *)
(* descriptors of wal.logs with their entryCount and the payload the file  *)
(* holds at their offset; reader.src is the list of bodies the payload     *)
(* under the open Reader was written from, reader.out the results of the   *)
(* Next calls so far.                                                      *)
(***************************************************************************)

\* the byte values of the bodies; 5 is also the length byte of a 1-byte body
ByteVals == {0, 5}

\* binary.LittleEndian.PutUint32 and Uint32
putUint32(n) ==
    <<n % 256, (n \div 256) % 256, (n \div 65536) % 256, (n \div 16777216) % 256>>
uint32(b) == b[1] + 256 * b[2] + 65536 * b[3] + 16777216 * b[4]

\* the Go slice s[a:b]
slice(s, a, b) == SubSeq(s, a + 1, b)

\* a sub-record as the log writer frames it, and the payload of a list of bodies
frame(body) == putUint32(Len(body) + 4) \o body
RECURSIVE payloadOf(_)
payloadOf(bodies) ==
    IF bodies = <<>> THEN <<>> ELSE frame(Head(bodies)) \o payloadOf(Tail(bodies))

RECURSIVE SeqsUpTo(_, _)
SeqsUpTo(S, n) ==
    IF n = 0 THEN {<<>>}
    ELSE SeqsUpTo(S, n - 1) \cup {Append(q, x) : q \in SeqsUpTo(S, n - 1), x \in S}

Bodies == SeqsUpTo(ByteVals, MaxBodyLen)
BodyLists == SeqsUpTo(Bodies, MaxRecs)

\* a log descriptor with the payload of its extent
readerLog(seq, bodies) ==
    [seq |-> seq, entryCount |-> Len(bodies), payload |-> payloadOf(bodies),
     bodies |-> bodies]

\* the log lists read from: one log, alone or behind a log without entries
ReaderLogLists ==
    LET Ls == {readerLog(q, bs) : q \in 1..2, bs \in BodyLists}
    IN {<<l>> : l \in Ls} \cup {<<readerLog(q, <<>>), l>> : q \in 1..2, l \in Ls}

\* WAL.Read, the loop of lines 213-224: the first log with the seq and entries
readHits(logs, seq) ==
    {i \in 1..Len(logs) : logs[i].seq = seq /\ logs[i].entryCount > 0}

\* a variant of Next below that returns the sub-record with its prefix
ReaderNextWithPrefix(r) ==
    IF r.entryCount = 0
    THEN [r |-> r, data |-> <<>>, ok |-> FALSE, err |-> FALSE]
    ELSE LET logData == slice(r.logData, r.blockOffset, Len(r.logData))
             dataLen == uint32(slice(logData, 0, 4))
         IN [r |-> [r EXCEPT !.entryCount = @ - 1, !.blockOffset = @ + dataLen],
             data |-> slice(logData, 0, dataLen), ok |-> TRUE, err |-> FALSE]
\* Reader.Next of wal.go 230-239
ReaderNext(r) ==
    IF r.entryCount = 0
    THEN [r |-> r, data |-> <<>>, ok |-> FALSE, err |-> FALSE]
    ELSE LET logData == slice(r.logData, r.blockOffset, Len(r.logData))
             dataLen == uint32(slice(logData, 0, 4))
         IN [r |-> [r EXCEPT !.entryCount = @ - 1, !.blockOffset = @ + dataLen],
             data |-> slice(logData, 4, dataLen), ok |-> TRUE, err |-> FALSE]

\* Reader.Next of reader.go 79-93; Slice fails beyond the end of the buffer
ReaderNextBuf(r) ==
    IF r.entryCount = 0
    THEN [r |-> r, data |-> <<>>, ok |-> FALSE, err |-> FALSE]
    ELSE LET r1 == [r EXCEPT !.entryCount = @ - 1]
             dataLen == uint32(slice(r.logData, r.blockOffset, r.blockOffset + 4))
         IN IF r.blockOffset + dataLen > Len(r.logData)
            THEN [r |-> r1, data |-> <<>>, ok |-> FALSE, err |-> TRUE]
            ELSE [r |-> [r1 EXCEPT !.blockOffset = @ + dataLen],
                  data |-> slice(r.logData, r.blockOffset + 4, r.blockOffset + dataLen),
                  ok |-> TRUE, err |-> FALSE]

InitReader ==
    /\ coreInit
    /\ dataInit
    /\ wputInit
    /\ wal_ret = "nil"
    /\ appInit
    /\ dwInit
    /\ wcloseInit
    /\ \E logs \in ReaderLogLists : reader = readerIdle(logs)

\* WAL.Read(seq), wal.go 208-227
ReadLog(seq) ==
    /\ reader.kind = "none"
    /\ ~reader.err
    /\ LET hit == readHits(reader.logs, seq)
       IN IF hit = {}
          THEN reader' = [reader EXCEPT !.err = TRUE, !.asked = seq]
          ELSE LET ul == reader.logs[Min(hit)]
               IN reader' = [reader EXCEPT
                      !.kind = "wal", !.asked = seq, !.src = ul.bodies,
                      !.r = [logData |-> ul.payload, blockOffset |-> 0,
                             entryCount |-> ul.entryCount]]
    /\ UNCHANGED <<batch, mem_seq, activeBatches, mem_buckets, mem_count, mem_ref,
                   db_buckets, db_count, filter, st, expected, badApplied,
                   walVars, idxVars, lockVars, auxButReader>>

\* Reader.Iterator hands one log to its callback, reader.go 61-68
Iterate(i) ==
    /\ reader.kind = "none"
    /\ ~reader.err
    /\ i \in 1..Len(reader.logs)
    /\ reader' = [reader EXCEPT
           !.kind = "buf", !.src = reader.logs[i].bodies,
           !.r = [logData |-> reader.logs[i].payload, blockOffset |-> 0,
                  entryCount |-> reader.logs[i].entryCount]]
    /\ UNCHANGED <<batch, mem_seq, activeBatches, mem_buckets, mem_count, mem_ref,
                   db_buckets, db_count, filter, st, expected, badApplied,
                   walVars, idxVars, lockVars, auxButReader>>

\* one call of Next on the open Reader, up to MaxExtraNext calls after the last record
NextCall ==
    /\ reader.kind # "none"
    /\ Len(reader.out) < Len(reader.src) + MaxExtraNext
    /\ LET res == IF reader.kind = "wal" THEN ReaderNext(reader.r) ELSE ReaderNextBuf(reader.r)
       IN reader' = [reader EXCEPT
              !.r = res.r,
              !.out = Append(@, [data |-> res.data, ok |-> res.ok, err |-> res.err])]
    /\ UNCHANGED <<batch, mem_seq, activeBatches, mem_buckets, mem_count, mem_ref,
                   db_buckets, db_count, filter, st, expected, badApplied,
                   walVars, idxVars, lockVars, auxButReader>>

NextReader ==
    \/ \E seq \in 1..2 : ReadLog(seq)
    \/ \E i \in 1..2 : Iterate(i)
    \/ NextCall

SpecReader == InitReader /\ [][NextReader]_vars

\* C24: over a payload of n sub-records, each with a 4-byte little-endian
\* length that counts itself, a Reader with entryCount = n returns the n
\* bodies in written order with ok = true and then ok = false on every later
\* call; Read(seq) returns an error when no log has that seq and entries.
C24_ReaderRecords ==
    /\ \A i \in 1..Len(reader.out) :
          IF i <= Len(reader.src)
          THEN reader.out[i] = [data |-> reader.src[i], ok |-> TRUE, err |-> FALSE]
          ELSE ~reader.out[i].ok
    /\ (reader.asked # 0 /\ readHits(reader.logs, reader.asked) = {}) => reader.err

\* a Reader has returned two different bodies, one of them not empty, and ok = false after them
C24_Witness ==
    /\ reader.kind = "wal"
    /\ Len(reader.src) = 2
    /\ reader.src[1] # reader.src[2]
    /\ Len(reader.out) = 3


\* the applied logs: those of the log list of the WAL and those whose header
\* on disk carries the status
appliedLogs ==
    {wal.logs[i] : i \in {j \in 1..Len(wal.logs) : wal.logs[j].status = logStatusApplied}}
      \cup {disk.data[o] : o \in {o \in DOMAIN disk.data :
                                    /\ o < disk.size
                                    /\ disk.data[o].seq # 0
                                    /\ disk.data[o].status = logStatusApplied}}

\* the blocks of the file that lie in the extent of an applied log and in
\* the extent of no written log
appliedBlocks ==
    {o \in headerSize..(DiskMax - 1) :
        /\ \E l \in appliedLogs : l.offset <= o /\ o < l.offset + extentSize(l)
        /\ \A l \in writtenLogs : ~(l.offset <= o /\ o < l.offset + extentSize(l))}

\* C25: the two free regions together are never larger than the aligned
\* bytes of the logs that are applied and not reallocated: logMerge adds the
\* extent of an applied log at most once and the collapse of the stable
\* region into the current one yields their union.
C25_FreeWithinApplied ==
    wal_pc # "crashed" => wal.fb.size + wal.fb.currSize <= Cardinality(appliedBlocks)


(***************************************************************************)
(* SignalLogApplied when the file operations can fail (wal.go 241-293,     *)
(* 310-314).  io tells which operations of the call succeed: status, the   *)
(* write of a log header in place; header, writeHeader; sync, the Sync of  *)
(* the file.  A failed write leaves the file as it was.                    *)
(***************************************************************************)

IOs == [status : BOOLEAN, header : BOOLEAN, sync : BOOLEAN]

\* writeHeader with its result
writeHeaderIO(w, d, ok) == IF ok THEN writeHeader(w, d) ELSE d

\* logMerge(i): the merge, wal.writeHeader() with its result dropped at line
\* 264, then "return wal.Sync()", where Sync drops the result of writeHeader
\* at line 312 and returns that of logFile.Sync()
logMergeIO(w, d, i, io) ==
    LET w1 == logMerge(w, i)
    IN [w |-> w1, d |-> writeHeaderIO(w1, writeHeaderIO(w1, d, io.header), io.header),
        err |-> ~io.sync]

\* the loop of SignalLogApplied, lines 282-290: the result of
\* writeMarshalableAt is dropped at line 285, the one of logMerge is returned
RECURSIVE signalLoopIO(_, _, _, _, _)
signalLoopIO(w, d, i, upperSeq, io) ==
    IF i > Len(w.logs)
    THEN [w |-> w, d |-> d, err |-> FALSE]
    ELSE IF signals(w.logs[i], upperSeq)
    THEN LET w1 == [w EXCEPT !.logs[i].status = logStatusApplied]
             d1 == IF io.status THEN [d EXCEPT !.data[w1.logs[i].offset] = w1.logs[i]] ELSE d
             m == logMergeIO(w1, d1, i, io)
         IN IF m.err THEN m ELSE signalLoopIO(m.w, m.d, i + 1, upperSeq, io)
    ELSE signalLoopIO(w, d, i + 1, upperSeq, io)

SignalLogAppliedIO(upperSeq, io) ==
    /\ wal_pc \in {"open", "recovered"}
    /\ LET sorted == SortSeq(wal.logs, LAMBDA a, b : a.offset < b.offset)
           r == signalLoopIO([wal EXCEPT !.logs = sorted], disk, 1, upperSeq, io)
       IN /\ wal' = r.w
          /\ disk' = r.d
          /\ wal_ret' = IF r.err THEN "err" ELSE "nil"
    /\ wal_pc' = "open"
    /\ UNCHANGED <<batch, mem_seq, activeBatches, mem_buckets, mem_count, mem_ref,
                   db_buckets, db_count, filter, st, expected, badApplied,
                   wal_crashes, idxVars, lockVars, auxButWalRet>>

NextWalIO ==
    \/ \E size \in LogSizes, upperSeq \in {wal.seq + 1, MaxLogs} : AppendLog(size, upperSeq)
    \/ Sync
    \/ \E upperSeq \in 1..MaxLogs, io \in IOs : SignalLogAppliedIO(upperSeq, io)

SpecWalIO == Init /\ [][NextWalIO]_vars

\* the call marks at least one log applied
signalsSome(upperSeq) == \E i \in 1..Len(wal.logs) : signals(wal.logs[i], upperSeq)

\* C26: when the write of a log's applied status in place or the rewrite of
\* the WAL header fails during SignalLogApplied, the call returns an error,
\* and the extent of a log whose status was not persisted is not merged
\* into the free regions.
C26_IOErrorSurfaced ==
    [][\A upperSeq \in 1..MaxLogs, io \in IOs :
          (SignalLogAppliedIO(upperSeq, io) /\ signalsSome(upperSeq)
             /\ (~io.status \/ ~io.header)) =>
              /\ wal_ret' = "err"
              /\ ~io.status => wal'.fb = wal.fb]_vars


(***************************************************************************)
(* Batch.append at byte level (batch.go 33-45, 141-167, 490-499).  A batch *)
(* is its data, a sequence of bytes, its index and its internalLen; a      *)
(* record in data is one flag byte, the key and, for a put, the value.     *)
(* kvOffset counts from 0 as in the code.                                  *)
(***************************************************************************)

\* the records appended: a put of a 1-byte key, a put of a 2-byte key with a
\* 2-byte value, a delete
AppRecs ==
    {[dFlag |-> FALSE, expiresAt |-> 0, key |-> <<1>>, value |-> <<7>>],
     [dFlag |-> FALSE, expiresAt |-> 3, key |-> <<2, 1>>, value |-> <<8, 9>>],
     [dFlag |-> TRUE, expiresAt |-> 0, key |-> <<1>>, value |-> <<>>]}

RECURSIVE sumBytes(_)
sumBytes(bs) == IF bs = <<>> THEN 0 ELSE Head(bs) + sumBytes(Tail(bs))

\* b.mem.hash(key): some function of the bytes of the key
hashBytes(key) == (sumBytes(key) % HashRange) + 1

\* appendRec, lines 141-167
appendRecBytes(bt, rec) ==
    LET o == Len(bt.data)
        val == IF rec.dFlag THEN <<>> ELSE rec.value
        index == [delFlag |-> rec.dFlag, hash |-> hashBytes(rec.key),
                  keySize |-> Len(rec.key), valueSize |-> Len(val),
                  expiresAt |-> rec.expiresAt, kvOffset |-> o + 1]
    IN [data |-> bt.data \o <<IF rec.dFlag THEN 1 ELSE 0>> \o rec.key \o val,
        index |-> Append(bt.index, index),
        internalLen |-> (bt.internalLen + index.keySize + index.valueSize + 8) % uint32Mod]

\* batchIndex.kv(data) with the other fields of the index entry
readRec(bt, i) ==
    LET index == bt.index[i]
        keyValue == slice(bt.data, index.kvOffset,
                          index.kvOffset + index.keySize + index.valueSize)
    IN [key |-> slice(keyValue, 0, index.keySize),
        value |-> slice(keyValue, index.keySize, Len(keyValue)),
        delFlag |-> index.delFlag, hash |-> index.hash, expiresAt |-> index.expiresAt]

\* a variant of append below that copies the index entries as they are
appendUnshifted(b, bnew) ==
    [data |-> b.data \o bnew.data,
     index |-> b.index \o bnew.index,
     internalLen |-> (b.internalLen + bnew.internalLen) % uint32Mod]
\* Batch.append, lines 490-499
append(b, bnew) ==
    LET off == Len(b.data)
    IN [data |-> b.data \o bnew.data,
        index |-> b.index \o [i \in 1..Len(bnew.index) |->
                                 [bnew.index[i] EXCEPT !.kvOffset = @ + off]],
        internalLen |-> (b.internalLen + bnew.internalLen) % uint32Mod]

\* a record is appended to b or to bnew, up to MaxAppRecs Put or Delete calls each
AppendRecBytes(which, rec) ==
    /\ app.appends = 0
    /\ Len(app[which].index) < MaxAppRecs
    /\ app' = [app EXCEPT ![which] = appendRecBytes(@, rec)]
    /\ UNCHANGED <<batch, mem_seq, activeBatches, mem_buckets, mem_count, mem_ref,
                   db_buckets, db_count, filter, st, expected, badApplied,
                   walVars, idxVars, lockVars, auxButApp>>

\* b.append(bnew)
AppendBatch ==
    /\ app.appends < MaxAppends
    /\ app' = [app EXCEPT !.b = append(app.b, app.bnew), !.appends = @ + 1]
    /\ UNCHANGED <<batch, mem_seq, activeBatches, mem_buckets, mem_count, mem_ref,
                   db_buckets, db_count, filter, st, expected, badApplied,
                   walVars, idxVars, lockVars, auxButApp>>

NextApp ==
    \/ \E which \in {"b", "bnew"}, rec \in AppRecs : AppendRecBytes(which, rec)
    \/ AppendBatch

SpecApp == Init /\ [][NextApp]_vars

\* C27: after b.append(bnew) the record at position len_before + i of b
\* reads, through b.data, the key, value, delFlag, hash and expiresAt that
\* record i of bnew reads through bnew.data; the first len_before records of
\* b read as before; b.internalLen is the sum of the two former values.
C27_AppendKeepsRecords ==
    [][AppendBatch =>
          LET n == Len(app.b.index)
          IN /\ Len(app'.b.index) = n + Len(app.bnew.index)
             /\ \A i \in 1..Len(app.bnew.index) :
                   readRec(app'.b, n + i) = readRec(app.bnew, i)
             /\ \A i \in 1..n : readRec(app'.b, i) = readRec(app.b, i)
             /\ SubSeq(app'.b.data, 1, Len(app.b.data)) = app.b.data
             /\ app'.b.internalLen = app.b.internalLen + app.bnew.internalLen]_vars

\* b.append(bnew) has run on two batches of two records each, which differ
C27_Witness ==
    /\ app.appends = 1
    /\ Len(app.bnew.index) = 2
    /\ Len(app.b.index) = 4
    /\ readRec(app.b, 1) # readRec(app.b, 3)
    /\ readRec(app.b, 3) # readRec(app.b, 4)


(***************************************************************************)
(* dataWriter (memdb/options.go 128-182).  dw.lease is the set of free     *)
(* blocks <<offset, size>> of the lease, dw.leasing the map of the writer, *)
(* dw.obtained the blocks lease.allocate has returned to this writer,      *)
(* dw.ret the result of the last append.                                   *)
(***************************************************************************)

\* the blocks lease.allocate(size) can return; none stands for -1
leaseBlocks(lease, size) == {blk \in lease : blk[2] = size}

\* dw.append(data) with len(data) = size > 0, lines 140-166: blk is the block
\* lease.allocate returned, <<>> when it returned -1; writeOk and extendOk
\* are the results of WriteAt and of buffer.Extend
dwAppend(w, size, blk, writeOk, extendOk) ==
    IF blk # <<>>
    THEN LET w1 == [w EXCEPT !.lease = @ \ {blk}, !.obtained = @ \cup {blk}]
         IN IF ~writeOk
            THEN [w1 EXCEPT !.ret = [off |-> 0, err |-> TRUE]]
            ELSE [w1 EXCEPT !.leasing = @ \cup {blk}, !.ret = [off |-> blk[1], err |-> FALSE]]
    ELSE IF ~extendOk
    THEN [w EXCEPT !.ret = [off |-> 0, err |-> TRUE]]
    ELSE IF ~writeOk
    THEN [w EXCEPT !.offset = @ + size, !.ret = [off |-> 0, err |-> TRUE]]
    ELSE [w EXCEPT !.offset = @ + size, !.ret = [off |-> w.offset, err |-> FALSE]]

\* dw.rollback, lines 177-182: every block of leasing goes to lease.freeBlock
dwRollback(w) == [w EXCEPT !.lease = @ \cup w.leasing, !.rolled = TRUE]

DwAppend(size, blk, writeOk, extendOk) ==
    /\ ~dw.rolled
    /\ dw.offset + size <= MaxDwOffset
    /\ IF leaseBlocks(dw.lease, size) = {} THEN blk = <<>> ELSE blk \in leaseBlocks(dw.lease, size)
    /\ dw' = dwAppend(dw, size, blk, writeOk, extendOk)
    /\ UNCHANGED <<batch, mem_seq, activeBatches, mem_buckets, mem_count, mem_ref,
                   db_buckets, db_count, filter, st, expected, badApplied,
                   walVars, idxVars, lockVars, auxButDw>>

DwRollback ==
    /\ ~dw.rolled
    /\ dw' = dwRollback(dw)
    /\ UNCHANGED <<batch, mem_seq, activeBatches, mem_buckets, mem_count, mem_ref,
                   db_buckets, db_count, filter, st, expected, badApplied,
                   walVars, idxVars, lockVars, auxButDw>>

\* the next writer on the same data table
DwNew ==
    /\ dw.rolled
    /\ dw' = newDataWriter(dw.lease, dw.offset)
    /\ UNCHANGED <<batch, mem_seq, activeBatches, mem_buckets, mem_count, mem_ref,
                   db_buckets, db_count, filter, st, expected, badApplied,
                   walVars, idxVars, lockVars, auxButDw>>

NextDw ==
    \/ \E size \in 1..2, blk \in {<<>>} \cup LeaseBlocks,
          writeOk \in BOOLEAN, extendOk \in BOOLEAN : DwAppend(size, blk, writeOk, extendOk)
    \/ DwRollback
    \/ DwNew

SpecDw == Init /\ [][NextDw]_vars

\* C28: append returns the leased offset when lease.allocate returned one,
\* and otherwise appends at the previous end offset and advances it by
\* len(data); after rollback every block this writer obtained from
\* lease.allocate is back in the lease, a block whose WriteAt failed included.
C28_RollbackFreesLeases ==
    [][/\ \A size \in 1..2, blk \in {<<>>} \cup LeaseBlocks :
             DwAppend(size, blk, TRUE, TRUE) =>
                 IF blk # <<>>
                 THEN dw'.ret = [off |-> blk[1], err |-> FALSE] /\ dw'.offset = dw.offset
                 ELSE dw'.ret = [off |-> dw.offset, err |-> FALSE]
                      /\ dw'.offset = dw.offset + size
       /\ DwRollback => \A blk \in dw.obtained : blk \in dw'.lease]_vars


\* C29: when a batch whose Write succeeded is aborted, activeBatches has no
\* entry for it any more, so its fingerprints are not seen by the conflict
\* checks of later batches.
C29_AbortClearsActive ==
    [][\A b \in Batches :
          (Abort(b) /\ st[b] = "written" /\ batch[b].pendingWrites # <<>>) =>
              batch[b].seq \notin DOMAIN activeBatches']_vars


\* C30: after every Write, b.keys holds each fingerprint of the pending
\* writes of the batch exactly once and nothing else, also when Write is
\* called again after an error or after Reset.
C30_KeysArePendingWrites ==
    \A b \in Batches :
        st[b] \in {"written", "failed"} => batch[b].keys = uniqKeys(batch[b].pendingWrites)


\* C31: the dedup of Write removes a record only when a later record of the
\* batch is for the same user key: a put that is the last record of its
\* user key is a pending write, also when another key has the same hash.
C31_DedupByUserKey ==
    st[1] # "open" =>
        LET ix == batch[1].index
            pw == batch[1].pendingWrites
        IN \A i \in 1..Len(ix) :
              (~ix[i].delFlag /\ \A j \in (i + 1)..Len(ix) : ix[j].key # ix[i].key) =>
                  \E p \in 1..Len(pw) : pw[p] = ix[i]


\* C32: the commit of a delete of key k changes the lookup of no other key:
\* a key that the chain walk found before the delete is found after it, with
\* the same value, also in a later slot of the bucket of the cleared slot.
C32_DeleteKeepsOtherKeys ==
    [][\A e \in IdxRecords :
          (IdxApply(e) /\ e.dFlag) =>
              \A k \in IdxKeys \ {e.key} :
                  Lookup(db_buckets, k) # 0 =>
                      Lookup(db_buckets', k) = Lookup(db_buckets, k)]_vars



\* C33: in every state reachable by commits, the commits that return an error
\* part-way included, db.count is the number of non-empty entries reachable
\* from the durable bucket chains.
C33_CountIsEntryCount ==
    data.count = Cardinality({k \in DataKeys : data.entry[k] # 0})


(***************************************************************************)
(* WAL.Close and SignalLogApplied thread by thread (wal.go 269-293,        *)
(* 316-336).  wclose.closed is wal.closed, wclose.wg the counter of        *)
(* wal.wg, wclose.mu the thread that holds wal.mu (0: free),               *)
(* wclose.fileClosed says that logFile.Close was called, wclose.wrote that *)
(* the last loop of SignalLogApplied called a write of logFile.  A step is *)
(* what a thread does between two synchronisation points.                  *)
(***************************************************************************)

\* wal.setClosed: the compare-and-swap of wal.closed from 0 to 1
setClosed(w) == [ok |-> w.closed = 0, w |-> [w EXCEPT !.closed = 1]]

\* Close, lines 319-321: the call of setClosed and the return of the error
CloseSetClosed(t) ==
    /\ wclose.pc[t] = "idle"
    /\ LET c == setClosed(wclose)
       IN wclose' = IF c.ok THEN [c.w EXCEPT !.pc[t] = "wait"]
                    ELSE [c.w EXCEPT !.pc[t] = "returned", !.ret[t] = "errClosed"]
    /\ UNCHANGED <<batch, mem_seq, activeBatches, mem_buckets, mem_count, mem_ref,
                   db_buckets, db_count, filter, st, expected, badApplied,
                   walVars, idxVars, lockVars, auxButWclose>>

\* Close, line 324: wal.wg.Wait returns when the counter is zero
CloseWait(t) ==
    /\ wclose.pc[t] = "wait"
    /\ wclose.wg = 0
    /\ wclose' = [wclose EXCEPT !.pc[t] = "sync"]
    /\ UNCHANGED <<batch, mem_seq, activeBatches, mem_buckets, mem_count, mem_ref,
                   db_buckets, db_count, filter, st, expected, badApplied,
                   walVars, idxVars, lockVars, auxButWclose>>

\* Close, lines 322 and 326: logFile.Sync, the deferred logFile.Close, and
\* the return of the result of Sync
CloseSync(t, ok) ==
    /\ wclose.pc[t] = "sync"
    /\ wclose' = [wclose EXCEPT !.pc[t] = "returned", !.fileClosed = TRUE,
                                !.ret[t] = IF ok THEN "nil" ELSE "errSync"]
    /\ UNCHANGED <<batch, mem_seq, activeBatches, mem_buckets, mem_count, mem_ref,
                   db_buckets, db_count, filter, st, expected, badApplied,
                   walVars, idxVars, lockVars, auxButWclose>>

\* SignalLogApplied, line 270: wal.mu.Lock
SigLock(t) ==
    /\ wclose.pc[t] = "idle"
    /\ wclose.mu = 0
    /\ wclose' = [wclose EXCEPT !.pc[t] = "add", !.mu = t]
    /\ UNCHANGED <<batch, mem_seq, activeBatches, mem_buckets, mem_count, mem_ref,
                   db_buckets, db_count, filter, st, expected, badApplied,
                   walVars, idxVars, lockVars, auxButWclose>>

\* SignalLogApplied, line 271: wal.wg.Add(1)
SigAdd(t) ==
    /\ wclose.pc[t] = "add"
    /\ wclose' = [wclose EXCEPT !.pc[t] = "body", !.wg = @ + 1]
    /\ UNCHANGED <<batch, mem_seq, activeBatches, mem_buckets, mem_count, mem_ref,
                   db_buckets, db_count, filter, st, expected, badApplied,
                   walVars, idxVars, lockVars, auxButWclose>>

\* SignalLogApplied, lines 277-290: the sort and the loop; with hit a log is
\* marked applied and writeMarshalableAt and logMerge are called on logFile
SigBody(t, hit) ==
    /\ wclose.pc[t] = "body"
    /\ wclose' = [wclose EXCEPT !.pc[t] = "done", !.wrote = hit]
    /\ UNCHANGED <<batch, mem_seq, activeBatches, mem_buckets, mem_count, mem_ref,
                   db_buckets, db_count, filter, st, expected, badApplied,
                   walVars, idxVars, lockVars, auxButWclose>>

\* SignalLogApplied, lines 272-275: the deferred wal.wg.Done and wal.mu.Unlock
SigReturn(t) ==
    /\ wclose.pc[t] = "done"
    /\ wclose' = [wclose EXCEPT !.pc[t] = "idle", !.wg = @ - 1, !.mu = 0]
    /\ UNCHANGED <<batch, mem_seq, activeBatches, mem_buckets, mem_count, mem_ref,
                   db_buckets, db_count, filter, st, expected, badApplied,
                   walVars, idxVars, lockVars, auxButWclose>>

NextClose ==
    \/ \E t \in CloseThreads : CloseSetClosed(t)
    \/ \E t \in CloseThreads : CloseWait(t)
    \/ \E t \in CloseThreads, ok \in BOOLEAN : CloseSync(t, ok)
    \/ \E t \in SigThreads : SigLock(t)
    \/ \E t \in SigThreads : SigAdd(t)
    \/ \E t \in SigThreads, hit \in BOOLEAN : SigBody(t, hit)
    \/ \E t \in SigThreads : SigReturn(t)

SpecClose == Init /\ [][NextClose]_vars

\* the Close calls that returned without the "wal is closed" error
closedBy(w) == {t \in CloseThreads : w.pc[t] = "returned" /\ w.ret[t] # "errClosed"}

\* a SignalLogApplied is in progress: a thread holds wal.mu in it
sigInProgress(w) == \E t \in SigThreads : w.pc[t] # "idle"

\* C34: of the Close calls on a WAL exactly one returns without the "wal is
\* closed" error; Close does not finish while a SignalLogApplied is in
\* progress, and no SignalLogApplied writes to the log file after Close has
\* returned.
C34_CloseOnceAndQuiesced ==
    [][/\ Cardinality(closedBy(wclose')) <= 1
       /\ (\A t \in CloseThreads : wclose'.pc[t] = "returned") =>
              Cardinality(closedBy(wclose')) = 1
       /\ \A t \in CloseThreads, ok \in BOOLEAN :
              CloseSync(t, ok) => ~sigInProgress(wclose)
       /\ \A t \in SigThreads :
              SigBody(t, TRUE) => closedBy(wclose) = {}]_vars

====
